---- MODULE Spec2Model ----
(***************************************************************************)
(* Model of the MySQL -> MSSQL bulk transfer engine                        *)
(* (sources/core/mysql_to_mssql_manager.py: MySQLToMSSQLSA and             *)
(* _mssql_execmany) and of its caller                                      *)
(* (sources/managers/insert_mysq_dataset_to_mssql_table).                  *)
(*                                                                         *)
(* One action per I/O step of the code: every statement executed on the    *)
(* source, every fetch, every executemany and every commit is a step that  *)
(* can succeed or raise.  Rows are opaque; the source result of n rows is  *)
(* the sequence <<1, ..., n>>.                                             *)
(***************************************************************************)
EXTENDS Integers, Sequences, FiniteSets, TLC

---------------------------------------------------------------------------
(* Bounds of the model *)
MaxRows == 5
MaxBatch == 2
MaxChunk == 2
MaxCount == 2
MaxStable == 2
MaxInterval == 2
MaxWaitB == 4
MaxConns == 3
MaxText == 3
MaxCalls == 2
MaxRowsD == 3

(* Python's None for the integer-valued locals `last` and the return value *)
None == -1

Strategies == {"transfer", "transfer_fetchall", "transfer_fetchone"}
BatchSizes == 0..MaxBatch
ChunkSizes == 0..MaxChunk
Counts == 0..MaxCount
StableFors == 1..MaxStable
Intervals == 1..MaxInterval
MaxWaits == (-1)..MaxWaitB
SeqLen == MaxWaitB + 1
(* driver-reported cursor.rowcount after an executemany of n rows *)
RowCounts(n) == (-1)..(n + 1)
Drivers == {"any", "absent", "exact"}

VARIABLES
    pc,            \* control position of the caller / the transfer call
    caller,        \* "manager" (load_mysql_dataset_to_mssql) or "direct"
    strategy,      \* which transfer method was called
    exc,           \* exception that reached the caller, "none" if none
    failPhase,     \* where the exception was raised
    result,        \* value returned by the transfer call, None before
    markers,       \* kinds of "|||" placeholders still in the select text
    batch_size,    \* argument batch_size
    chunk_size,    \* argument chunk_size (transfer only)
    counts,        \* scripted answers of the source to the count query, <<>> = free
    stable_for,    \* _wait_for_stable_count: parameter
    interval,      \* _wait_for_stable_count: parameter
    max_wait,      \* _wait_for_stable_count: parameter
    last,          \* _wait_for_stable_count: local
    same_for,      \* _wait_for_stable_count: local
    waited,        \* _wait_for_stable_count: local
    nSamples,      \* number of count queries answered in this gate call
    expected,      \* value returned by the gate, None before
    gateExit,      \* "none", "stable" or "timeout"
    srcRows,       \* result set of the data query, once executed
    srcPos,        \* rows of the result fetched from the source so far
    page,          \* _stream_rows: unconsumed rows of the current page
    genState,      \* _stream_rows generator: "none","init","fetch","end"
    rows,          \* transfer_fetchall: the materialised list
    obuf,          \* transfer_fetchone: local buf
    total_inserted,\* transfer_fetchone: local
    fetched,       \* transfer_fetchone: local
    wIn,           \* _mssql_execmany: the list passed as `rows` (list input)
    wPos,          \* _mssql_execmany: position of the for loop in wIn
    wret,          \* where _mssql_execmany returns to
    buf,           \* _mssql_execmany: local buf
    total,         \* _mssql_execmany: local total
    curOpen,       \* _mssql_execmany: the cursor is open
    submitted,     \* batches passed to cursor.executemany, in call order
    txBatches,     \* executemany calls in the open destination transaction
    pending,       \* rows inserted in the open destination transaction
    committed,     \* rows durable at the destination
    srcOut,        \* source connections currently checked out
    srcEver,       \* a source connection has been opened
    mssqlOpen,     \* the destination connection is open
    anyStmt,       \* a statement has been executed on either side
    callIO,        \* a statement has been executed during the transfer call
    trail,         \* phases the transfer call has entered, in order
    pageSizes,     \* _stream_rows: sizes of the non-empty pages fetched with a
                   \* positive chunk_size
    rowcount,      \* cur.rowcount as read right after executemany; None once
                   \* the writer has moved on (it is never read again)
    driver,        \* how the destination driver reports rowcounts
    verify,        \* self.mssql_verify_rowcount
    select,        \* the select text the caller passed (source-side view)
    conns,         \* session settings in effect on each source connection
    opened,        \* source connections the pool has opened so far
    idle,          \* source connections resting in the pool
    held,          \* source connection checked out by the with block, 0 if none
    acquired,      \* checkouts from the pool so far
    gateConn,      \* connection the latest count query ran on, 0 if none
    gateAcq,       \* value of `acquired` at the latest count query
    readConn,      \* connection the data query ran on, 0 if none
    stmts,         \* count and data statements executed so far
    calls,         \* transfer calls made on this instance so far
    credited,      \* sum of the `inserted` values added by the writer
    logged         \* log entries written (tags)

ctlVars == <<pc, caller, strategy, exc, failPhase, result>>
argVars == <<markers, batch_size, chunk_size>>
gateVars == <<counts, stable_for, interval, max_wait, last, same_for, waited, nSamples>>
gateOut == <<expected, gateExit>>
srcVars == <<srcRows, srcPos, page, genState>>
f1Vars == <<rows, obuf, total_inserted, fetched>>
wVars == <<wIn, wPos, wret, buf, total, curOpen>>
dstVars == <<submitted, txBatches, pending, committed>>
connVars == <<srcOut, srcEver, mssqlOpen, anyStmt, callIO>>
poolVars == <<conns, opened, idle, held, acquired, gateConn, gateAcq, readConn>>
envVars == <<driver, verify, select, poolVars, stmts, calls>>
histVars == <<trail, pageSizes, rowcount, envVars, credited>>

vars == <<ctlVars, argVars, gateVars, gateOut, srcVars, f1Vars, wVars, dstVars,
          connVars, histVars, logged>>

---------------------------------------------------------------------------
(* Helpers *)

SeqRange(a, b) == [i \in 1..(b - a + 1) |-> a + i - 1]

Min(a, b) == IF a <= b THEN a ELSE b

RECURSIVE Flatten(_)
Flatten(ss) == IF ss = <<>> THEN <<>> ELSE Head(ss) \o Flatten(Tail(ss))

(* ceil(a / b) for a >= 0, b > 0 *)
CeilDiv(a, b) == (a + b - 1) \div b

(* An exception leaves the call.  In the manager the except clause logs it  *)
(* and re-raises.                                                           *)
Raise(kind, phase, tags) ==
    /\ pc' = "failed"
    /\ exc' = kind
    /\ failPhase' = phase
    /\ logged' = logged \cup tags \cup
                   (IF caller = "manager" THEN {"err_manager"} ELSE {})

---------------------------------------------------------------------------
(* The source-side view (pool, session settings, statement texts) before *)
(* any source connection has been checked out: create_engine opens none. *)
SourceAtRest ==
    /\ select = <<"q">>
    /\ conns = [i \in 1..MaxConns |-> {}]
    /\ opened = 0
    /\ idle = {}
    /\ held = 0
    /\ acquired = 0
    /\ gateConn = 0
    /\ gateAcq = 0
    /\ readConn = 0
    /\ stmts = {}
    /\ calls = 1

---------------------------------------------------------------------------
(* Initial state: nothing constructed yet.  The select text handed to the   *)
(* caller may carry boundary placeholders and/or another unresolved one.    *)

Init ==
    /\ pc = "start"
    /\ caller \in {"manager", "direct"}
    /\ strategy = "none"
    /\ exc = "none"
    /\ failPhase = "none"
    /\ result = None
    /\ markers \in SUBSET {"boundary", "other"}
    /\ batch_size = 0
    /\ chunk_size = 0
    /\ counts = <<>>
    /\ stable_for = 0
    /\ interval = 0
    /\ max_wait = 0
    /\ last = None
    /\ same_for = 0
    /\ waited = 0
    /\ nSamples = 0
    /\ expected = None
    /\ gateExit = "none"
    /\ srcRows = <<>>
    /\ srcPos = 0
    /\ page = <<>>
    /\ genState = "none"
    /\ rows = <<>>
    /\ obuf = <<>>
    /\ total_inserted = 0
    /\ fetched = 0
    /\ wIn = <<>>
    /\ wPos = 0
    /\ wret = "none"
    /\ buf = <<>>
    /\ total = 0
    /\ curOpen = FALSE
    /\ submitted = <<>>
    /\ txBatches = 0
    /\ pending = <<>>
    /\ committed = <<>>
    /\ srcOut = 0
    /\ srcEver = FALSE
    /\ mssqlOpen = FALSE
    /\ anyStmt = FALSE
    /\ callIO = FALSE
    /\ logged = {}
    /\ trail = <<>>
    /\ pageSizes = <<>>
    /\ rowcount = None
    /\ driver \in Drivers
    /\ credited = 0
    /\ verify = TRUE
    /\ SourceAtRest

---------------------------------------------------------------------------
(* MySQLToMSSQLSA.__init__: create the engine, normalise a source session, *)
(* log diagnostics, refuse a read-only server, connect to the destination. *)

Construct ==
    /\ pc = "start"
    /\ \E outcome \in {"ok", "session_fails", "read_only", "mssql_fails"} :
         /\ srcEver' = TRUE
         /\ anyStmt' = TRUE
         /\ srcOut' = 0
         /\ callIO' = FALSE
         /\ IF outcome = "ok"
              THEN /\ mssqlOpen' = TRUE
                   /\ pc' = IF caller = "manager" THEN "mgr_boundary" ELSE "ready"
                   /\ UNCHANGED <<exc, failPhase, logged>>
              ELSE /\ mssqlOpen' = FALSE
                   /\ Raise(IF outcome = "read_only" THEN "RuntimeError"
                            ELSE IF outcome = "session_fails" THEN "SrcError"
                            ELSE "DstError", "construct", {})
    /\ UNCHANGED <<caller, strategy, result, argVars, gateVars, gateOut, srcVars,
                   f1Vars, wVars, dstVars>>
    /\ UNCHANGED histVars

(* load_mysql_dataset_to_mssql, lines 109-127: with requires_boundary = "Y" *)
(* the end boundary is read through the engine and the boundary            *)
(* placeholders are replaced; a failure is logged and swallowed.           *)
MgrBoundary ==
    /\ pc = "mgr_boundary"
    /\ \E requires \in BOOLEAN, ok \in BOOLEAN :
         IF requires
           THEN /\ srcEver' = TRUE
                /\ anyStmt' = TRUE
                /\ markers' = IF ok THEN markers \ {"boundary"} ELSE markers
                /\ logged' = IF ok THEN logged ELSE logged \cup {"err_boundary"}
                /\ UNCHANGED <<srcOut, mssqlOpen, callIO>>
           ELSE UNCHANGED <<connVars, markers, logged>>
    /\ pc' = "mgr_guard"
    /\ UNCHANGED <<caller, strategy, exc, failPhase, result, batch_size, chunk_size,
                   gateVars, gateOut, srcVars, f1Vars, wVars, dstVars>>
    /\ UNCHANGED histVars

(* load_mysql_dataset_to_mssql, lines 129-131: the manager's own guard *)
MgrGuard ==
    /\ pc = "mgr_guard"
    /\ IF markers # {}
         THEN Raise("ValueError", "config", {})
         ELSE /\ pc' = "ready"
              /\ UNCHANGED <<exc, failPhase, logged>>
    /\ UNCHANGED <<caller, strategy, result, argVars, gateVars, gateOut, srcVars,
                   f1Vars, wVars, dstVars, connVars>>
    /\ UNCHANGED histVars

---------------------------------------------------------------------------
(* Entry of transfer / transfer_fetchall / transfer_fetchone *)

(* `"|||" in select_sql` *)
HasPlaceholder(m) == m # {}

(* The call and its first statement, the placeholder check.  The manager   *)
(* calls transfer_fetchall only, with the default batch_size;              *)
(* transfer_fetchall and transfer_fetchone take no chunk_size.             *)
Call ==
    /\ pc = "ready"
    /\ \E s \in Strategies, b \in BatchSizes, ch \in ChunkSizes :
         /\ caller = "manager" => (s = "transfer_fetchall" /\ b > 0)
         /\ s # "transfer" => ch = 0
         /\ strategy' = s
         /\ batch_size' = b
         /\ chunk_size' = ch
    /\ IF HasPlaceholder(markers)
         THEN Raise("ValueError", "config", {})
         ELSE /\ pc' = "session"
              /\ UNCHANGED <<exc, failPhase, logged>>
    /\ UNCHANGED <<caller, result, markers, gateVars, gateOut, srcVars, f1Vars,
                   wVars, dstVars, connVars>>
    /\ trail' = Append(trail, "check")
    /\ UNCHANGED <<pageSizes, rowcount, envVars, credited>>

(* self._ensure_mysql_fresh_session(): outside any try block *)
EnsureSession ==
    /\ pc = "session"
    /\ srcEver' = TRUE
    /\ anyStmt' = TRUE
    /\ callIO' = TRUE
    /\ \E ok \in BOOLEAN :
         IF ok
           THEN /\ pc' = "diag_pre"
                /\ UNCHANGED <<exc, failPhase, logged>>
           ELSE Raise("SrcError", "pre-select", {})
    /\ UNCHANGED <<caller, strategy, result, argVars, gateVars, gateOut, srcVars,
                   f1Vars, wVars, dstVars, srcOut, mssqlOpen>>
    /\ trail' = Append(trail, "session")
    /\ UNCHANGED <<pageSizes, rowcount, envVars, credited>>

(* a call that goes from the diagnostics straight to the connection *)
M_DiagPre_SkipsPreview ==
    /\ pc = "diag_pre"
    /\ pc' = "connect"
    /\ UNCHANGED <<caller, strategy, exc, failPhase, result, argVars, gateVars,
                   gateOut, srcVars, f1Vars, wVars, dstVars, connVars, logged>>
    /\ UNCHANGED histVars

(* self._mysql_diag("pre-select"): best effort, it catches every exception *)
(* itself and only writes context lines, which `logged` does not record.   *)
DiagPre ==
    /\ pc = "diag_pre"
    /\ pc' = "preview"
    /\ UNCHANGED <<caller, strategy, exc, failPhase, result, argVars, gateVars,
                   gateOut, srcVars, f1Vars, wVars, dstVars, connVars, logged>>
    /\ UNCHANGED histVars

(* a preview whose failure is not caught *)
M_Preview_Aborts ==
    /\ pc = "preview"
    /\ \E ok \in BOOLEAN :
         IF ok
           THEN /\ pc' = "connect"
                /\ UNCHANGED <<exc, failPhase, logged>>
           ELSE Raise("SrcError", "pre-select", {})
    /\ UNCHANGED <<caller, strategy, result, argVars, gateVars,
                   gateOut, srcVars, f1Vars, wVars, dstVars, connVars>>
    /\ trail' = Append(trail, "preview")
    /\ UNCHANGED <<pageSizes, rowcount, envVars, credited>>

(* the "Peek" block: _preview_rows inside try/except *)
Preview ==
    /\ pc = "preview"
    /\ \E ok \in BOOLEAN :
         logged' = IF ok THEN logged ELSE logged \cup {"warn_preview"}
    /\ pc' = "connect"
    /\ UNCHANGED <<caller, strategy, exc, failPhase, result, argVars, gateVars,
                   gateOut, srcVars, f1Vars, wVars, dstVars, connVars>>
    /\ trail' = Append(trail, "preview")
    /\ UNCHANGED <<pageSizes, rowcount, envVars, credited>>

---------------------------------------------------------------------------
(* StabilityGate: _wait_for_stable_count *)

(* `while waited <= max_wait` *)
M_LoopContinues_Late(w, mw) == w <= mw + 1

(* `while waited <= max_wait` *)
LoopContinues(w, mw) == w <= mw

(* a test that lets a smaller count pass as unchanged *)
M_SameSample_NotLarger(cnt, l) == cnt <= l

(* `if cnt == last` *)
SameSample(cnt, l) == cnt = l

(* mutant: counts samples instead of seconds *)
M_Accumulate_PerSample(sf, iv) == sf + 1

(* `same_for += interval` *)
Accumulate(sf, iv) == sf + iv

(* mutant: strict comparison *)
M_StableReached_Strict(sf, st) == sf > st

(* `if same_for >= stable_for` *)
StableReached(sf, st) == sf >= st

(* mutant: the reference value is not updated *)
M_ResetLast_Stale(cnt, l) == l

(* the else branch: `same_for = 0; last = cnt` *)
ResetLast(cnt, l) == cnt

(* mutant: the timeout exit gives up the last-seen count *)
M_TimeoutValue_Zero(l) == 0

(* `return last if last is not None else 0` *)
TimeoutValue(l) == IF l # None THEN l ELSE 0

(* an except clause that raises an error of its own instead *)
M_RaiseInWith_Wrapped(kind, phase, tags) ==
    /\ Raise("RuntimeError", phase, tags \cup {"err_transfer"})
    /\ srcOut' = 0

(* an exception inside `with self.mysql_engine.connect() as c:` of a      *)
(* transfer method: the except clause logs it, the with block releases c  *)
RaiseInWith(kind, phase, tags) ==
    /\ Raise(kind, phase, tags \cup {"err_transfer"})
    /\ srcOut' = 0

(* `with self.mysql_engine.connect() as c:` with its two SET statements,  *)
(* then the call of _wait_for_stable_count.  stable_for_seconds,           *)
(* poll_interval_seconds and max_wait_seconds are read nowhere else, so    *)
(* they are drawn here, where they become the gate's parameters.           *)
GateEnter ==
    /\ pc = "connect"
    /\ \E ok \in BOOLEAN :
         IF ok
           THEN /\ pc' = "gate"
                /\ srcOut' = 1
                /\ \E st \in StableFors, iv \in Intervals, mw \in MaxWaits :
                     /\ stable_for' = st
                     /\ interval' = iv
                     /\ max_wait' = mw
                /\ last' = None
                /\ same_for' = 0
                /\ waited' = 0
                /\ nSamples' = 0
                /\ counts' = <<>>
                /\ trail' = Append(trail, "gate")
                /\ UNCHANGED <<exc, failPhase, logged>>
           ELSE /\ RaiseInWith("SrcError", "stabilizing", {})
                /\ UNCHANGED <<gateVars, trail>>
    /\ UNCHANGED <<caller, strategy, result, argVars, gateOut, srcVars, f1Vars,
                   wVars, dstVars, srcEver, mssqlOpen, anyStmt, callIO>>
    /\ UNCHANGED <<pageSizes, rowcount, envVars, credited>>

(* The answers the source may give to the next the count query: the scripted one *)
(* when the source is scripted, any count otherwise.                      *)
SampleChoices ==
    IF nSamples < Len(counts) THEN {counts[nSamples + 1]} ELSE Counts

(* One iteration of the polling loop: the count query, the comparison,    *)
(* and either the stable return or the sleep.                             *)
GatePoll ==
    /\ pc = "gate"
    /\ LoopContinues(waited, max_wait)
    /\ \E cnt \in SampleChoices :
         /\ nSamples' = nSamples + 1
         /\ IF SameSample(cnt, last)
              THEN /\ same_for' = Accumulate(same_for, interval)
                   /\ last' = last
                   /\ IF StableReached(same_for', stable_for)
                        THEN /\ pc' = "gate_ret"
                             /\ expected' = cnt
                             /\ gateExit' = "stable"
                             /\ waited' = waited
                        ELSE /\ waited' = waited + interval
                             /\ UNCHANGED <<pc, gateOut>>
              ELSE /\ same_for' = 0
                   /\ last' = ResetLast(cnt, last)
                   /\ waited' = waited + interval
                   /\ UNCHANGED <<pc, gateOut>>
    /\ UNCHANGED <<caller, strategy, exc, failPhase, result, argVars, counts,
                   stable_for, interval, max_wait, srcVars, f1Vars, wVars, dstVars,
                   connVars, logged>>
    /\ UNCHANGED histVars

(* The count query raises: the exception leaves the gate and the transfer *)
GatePollFails ==
    /\ pc = "gate"
    /\ LoopContinues(waited, max_wait)
    /\ RaiseInWith("SrcError", "stabilizing", {})
    /\ UNCHANGED <<caller, strategy, result, argVars, gateVars, gateOut, srcVars,
                   f1Vars, wVars, dstVars, srcEver, mssqlOpen, anyStmt, callIO>>
    /\ UNCHANGED histVars

(* The loop condition fails: warning and best-effort return value *)
GateTimeout ==
    /\ pc = "gate"
    /\ ~LoopContinues(waited, max_wait)
    /\ logged' = logged \cup {"warn_timeout"}
    /\ expected' = TimeoutValue(last)
    /\ gateExit' = "timeout"
    /\ pc' = "gate_ret"
    /\ UNCHANGED <<caller, strategy, exc, failPhase, result, argVars, gateVars,
                   srcVars, f1Vars, wVars, dstVars, connVars>>
    /\ UNCHANGED histVars

(* The gate's frame is discarded when the caller goes on *)
GateFramePopped ==
    /\ counts' = <<>>
    /\ stable_for' = 0
    /\ interval' = 0
    /\ max_wait' = 0
    /\ last' = None
    /\ same_for' = 0
    /\ waited' = 0
    /\ nSamples' = 0

---------------------------------------------------------------------------
(* DestinationWriter: _mssql_execmany *)

(* mutant: off by one *)
M_BatchFull_Strict(b, batch) == Len(b) > batch

(* `if len(buf) >= batch` *)
BatchFull(b, batch) == Len(b) >= batch

(* the rowcount taken as it is *)
M_InsertedDelta_Raw(rc, n) == rc

(* `cur.rowcount if cur.rowcount is not None and cur.rowcount >= 0 else len(buf)` *)
InsertedDelta(rc, n) == IF rc >= 0 THEN rc ELSE n

(* mutant: the warning ignores the verification flag *)
M_RowcountWarning_Always(v, inserted, n) == inserted < n

(* `if verify_rowcount and inserted < len(buf)` (verify_rowcount defaults to True) *)
RowcountWarning(v, inserted, n) == v /\ inserted < n

(* mutant: the buffer is not cleared *)
M_Cleared_Kept(b) == b

(* `buf.clear()` after a full batch *)
Cleared(b) == <<>>

(* `cur = conn.cursor(); buf = []; total = 0`, called with a list (or, for  *)
(* the streaming strategy, with the generator) and a place to return to.   *)
WriterFrame(input, ret) ==
    /\ wIn' = input
    /\ wPos' = 0
    /\ wret' = ret
    /\ buf' = <<>>
    /\ total' = 0
    /\ curOpen' = TRUE

(* a loop that never submits before the input ends *)
M_AfterAppend_Deferred(b) == "w_next"

(* where the for loop goes after `buf.append(row)` *)
AfterAppend(b) == IF BatchFull(b, batch_size) THEN "w_exec" ELSE "w_next"

(* a writer without the finally clause *)
M_WriterRaises_CursorLeft ==
    /\ Raise("DstError", "writing",
             {"err_mssql"} \cup
             (IF strategy = "transfer_fetchall" THEN {} ELSE {"err_transfer"}))
    /\ curOpen' = curOpen
    /\ srcOut' = 0

(* A pyodbc.Error in executemany or commit: logged by the writer, the      *)
(* cursor is closed by `finally`, and the exception reaches the transfer   *)
(* method; transfer and transfer_fetchone call the writer inside their     *)
(* try/with, transfer_fetchall after it.                                   *)
WriterRaises ==
    /\ Raise("DstError", "writing",
             {"err_mssql"} \cup
             (IF strategy = "transfer_fetchall" THEN {} ELSE {"err_transfer"}))
    /\ curOpen' = FALSE
    /\ srcOut' = 0

(* `for row in rows` over a list: the next row, or the end of the loop *)
WNextList ==
    /\ pc = "w_next"
    /\ strategy # "transfer"
    /\ IF wPos < Len(wIn)
         THEN /\ buf' = Append(buf, wIn[wPos + 1])
              /\ wPos' = wPos + 1
              /\ pc' = AfterAppend(buf')
         ELSE /\ pc' = "w_final"
              /\ UNCHANGED <<buf, wPos>>
    /\ UNCHANGED <<caller, strategy, exc, failPhase, result, argVars, gateVars,
                   gateOut, srcVars, f1Vars, wIn, wret, total, curOpen, dstVars,
                   connVars, logged>>
    /\ rowcount' = None
    /\ UNCHANGED <<trail, pageSizes, envVars, credited>>

(* what `cur.rowcount` may hold after executemany on a batch of n rows:     *)
(* a driver that never reports a count leaves it negative, one that counts *)
(* every row reports n, and in general the code accepts any value          *)
Reported(d, n) ==
    IF d = "absent" THEN {-1}
    ELSE IF d = "exact" THEN {n}
    ELSE RowCounts(n)

(* cursor.executemany(insert_sql, buf) succeeds with a reported rowcount *)
ExecBatch(nextPc, clear) ==
    \E rc \in Reported(driver, Len(buf)) :
       /\ submitted' = Append(submitted, buf)
       /\ pending' = pending \o buf
       /\ txBatches' = txBatches + 1
       /\ total' = total + InsertedDelta(rc, Len(buf))
       /\ rowcount' = rc
       /\ credited' = credited + InsertedDelta(rc, Len(buf))
       /\ trail' = IF trail # <<>> /\ trail[Len(trail)] = "write"
                     THEN trail ELSE Append(trail, "write")
       /\ UNCHANGED <<pageSizes, envVars>>
       /\ logged' = IF RowcountWarning(verify, InsertedDelta(rc, Len(buf)), Len(buf))
                      THEN logged \cup {"warn_rowcount"} ELSE logged
       /\ buf' = IF clear THEN Cleared(buf) ELSE buf
       /\ pc' = nextPc
       /\ anyStmt' = TRUE
       /\ callIO' = TRUE
       /\ UNCHANGED <<caller, strategy, exc, failPhase, result, argVars, gateVars,
                      gateOut, srcVars, f1Vars, wIn, wPos, wret, curOpen, committed,
                      srcOut, srcEver, mssqlOpen>>

(* a writer that logs the error and tries the statement again *)
M_ExecFails_Retry ==
    /\ pc' = pc
    /\ exc' = "DstError"
    /\ failPhase' = "writing"
    /\ logged' = logged \cup {"err_mssql"}
    /\ UNCHANGED <<caller, strategy, result, argVars, gateVars, gateOut, srcVars,
                   f1Vars, wVars, dstVars, connVars, histVars>>

ExecFails ==
    /\ WriterRaises
    /\ UNCHANGED <<caller, strategy, result, argVars, gateVars, gateOut, srcVars,
                   f1Vars, wIn, wPos, wret, buf, total, dstVars, srcEver, mssqlOpen,
                   anyStmt, callIO>>
    /\ UNCHANGED histVars

(* a full batch inside the loop, lines 37-51 *)
WExec ==
    /\ pc = "w_exec"
    /\ ExecBatch("w_next", TRUE)

WExecFails ==
    /\ pc = "w_exec"
    /\ ExecFails

(* `if buf:` after the loop, lines 53-65 *)
WFinal ==
    /\ pc = "w_final"
    /\ buf # <<>>
    /\ ExecBatch("w_commit", FALSE)

WFinalFails ==
    /\ pc = "w_final"
    /\ buf # <<>>
    /\ ExecFails

WFinalEmpty ==
    /\ pc = "w_final"
    /\ buf = <<>>
    /\ pc' = "w_commit"
    /\ UNCHANGED <<caller, strategy, exc, failPhase, result, argVars, gateVars,
                   gateOut, srcVars, f1Vars, wVars, dstVars, connVars, logged>>
    /\ UNCHANGED histVars

(* `conn.commit()`, the return of total and `cur.close()` *)
WCommit ==
    /\ pc = "w_commit"
    /\ committed' = committed \o pending
    /\ pending' = <<>>
    /\ txBatches' = 0
    /\ curOpen' = FALSE
    /\ pc' = wret
    /\ anyStmt' = TRUE
    /\ callIO' = TRUE
    /\ UNCHANGED <<caller, strategy, exc, failPhase, result, argVars, gateVars,
                   gateOut, srcVars, f1Vars, wIn, wPos, wret, buf, total, submitted,
                   srcOut, srcEver, mssqlOpen, logged>>
    /\ rowcount' = None
    /\ UNCHANGED <<trail, pageSizes, envVars, credited>>

WCommitFails ==
    /\ pc = "w_commit"
    /\ ExecFails

---------------------------------------------------------------------------
(* SourceReader, streaming strategy: transfer and _stream_rows *)

(* The result set the data query produces: n opaque rows *)
ResultSets == {SeqRange(1, n) : n \in 0..MaxRows}

(* a fetchmany that returns up to twice the size asked for *)
M_PageSizes_Double(arraysize, left) ==
    IF arraysize > 0 THEN {Min(2 * arraysize, left)} ELSE 0..left

(* a fetchmany that hands over everything that is left *)
M_PageSizes_Whole(arraysize, left) == {left}

(* Sizes of the page res.fetchmany(arraysize) may return with `left` rows  *)
(* still unread: min(arraysize, left) for a positive size; what a          *)
(* non-positive size returns is left to the driver.                        *)
PageSizes(arraysize, left) ==
    IF arraysize > 0 THEN {Min(arraysize, left)} ELSE 0..left

(* `expected >= 0 and expected != total` and its siblings *)
Drift(exp, actual) == exp >= 0 /\ exp # actual

(* rows_iter = self._stream_rows(...) creates the generator (nothing runs  *)
(* yet) and _mssql_execmany is entered.                                    *)
StartStream ==
    /\ pc = "gate_ret"
    /\ strategy = "transfer"
    /\ genState' = "init"
    /\ WriterFrame(<<>>, "t_post")
    /\ pc' = "w_next"
    /\ GateFramePopped
    /\ UNCHANGED <<caller, strategy, exc, failPhase, result, argVars, gateOut,
                   srcRows, srcPos, page, f1Vars, dstVars, connVars, logged>>
    /\ UNCHANGED histVars

(* An exception inside the generator: logged there, it passes through the  *)
(* writer's for loop (not a pyodbc.Error; `finally` closes the cursor, no  *)
(* commit is issued) and through the except clause of transfer.            *)
StreamRaises ==
    /\ RaiseInWith("SrcError", "reading", {"err_stream"})
    /\ curOpen' = FALSE
    /\ UNCHANGED <<caller, strategy, result, argVars, gateVars, gateOut, srcVars,
                   f1Vars, wIn, wPos, wret, buf, total, dstVars, srcEver, mssqlOpen,
                   anyStmt, callIO>>
    /\ UNCHANGED histVars

(* first next() of the generator: SET autocommit and the data query *)
StreamOpen ==
    /\ pc = "w_next"
    /\ strategy = "transfer"
    /\ genState = "init"
    /\ \E rs \in ResultSets : srcRows' = rs
    /\ genState' = "fetch"
    /\ UNCHANGED <<ctlVars, argVars, gateVars, gateOut, srcPos, page, f1Vars,
                   wVars, dstVars, connVars, logged>>
    /\ trail' = Append(trail, "read")
    /\ UNCHANGED <<pageSizes, rowcount, envVars, credited>>

StreamOpenFails ==
    /\ pc = "w_next"
    /\ strategy = "transfer"
    /\ genState = "init"
    /\ StreamRaises

(* res.fetchmany(arraysize): a page, or the empty page that ends the loop *)
StreamFetch ==
    /\ pc = "w_next"
    /\ strategy = "transfer"
    /\ genState = "fetch"
    /\ page = <<>>
    /\ \E k \in PageSizes(chunk_size, Len(srcRows) - srcPos) :
         /\ page' = SubSeq(srcRows, srcPos + 1, srcPos + k)
         /\ srcPos' = srcPos + k
         /\ pageSizes' = IF k > 0 /\ chunk_size > 0
                         THEN Append(pageSizes, k) ELSE pageSizes
         /\ IF k = 0
              THEN /\ genState' = "end"
                   /\ pc' = "w_final"
              ELSE UNCHANGED <<genState, pc>>
    /\ UNCHANGED <<caller, strategy, exc, failPhase, result, argVars, gateVars,
                   gateOut, srcRows, f1Vars, wVars, dstVars, connVars, logged>>
    /\ rowcount' = None
    /\ UNCHANGED <<trail, envVars, credited>>

StreamFetchFails ==
    /\ pc = "w_next"
    /\ strategy = "transfer"
    /\ genState = "fetch"
    /\ page = <<>>
    /\ StreamRaises

(* `yield tuple(row)` received by the writer's `buf.append(row)` *)
StreamYield ==
    /\ pc = "w_next"
    /\ strategy = "transfer"
    /\ genState = "fetch"
    /\ page # <<>>
    /\ buf' = Append(buf, Head(page))
    /\ page' = Tail(page)
    /\ pc' = AfterAppend(buf')
    /\ UNCHANGED <<caller, strategy, exc, failPhase, result, argVars, gateVars,
                   gateOut, srcRows, srcPos, genState, f1Vars, wIn, wPos, wret,
                   total, curOpen, dstVars, connVars, logged>>
    /\ rowcount' = None
    /\ UNCHANGED <<trail, pageSizes, envVars, credited>>

(* after the writer returned: the with block ends, the best-effort         *)
(* post-insert diagnostics, the drift warning, `return total`              *)
TransferPost ==
    /\ pc = "t_post"
    /\ srcOut' = 0
    /\ logged' = logged \cup (IF Drift(expected, total) THEN {"warn_drift"} ELSE {})
    /\ result' = total
    /\ pc' = "done"
    /\ UNCHANGED <<caller, strategy, exc, failPhase, argVars, gateVars, gateOut,
                   srcVars, f1Vars, wVars, dstVars, srcEver, mssqlOpen, anyStmt,
                   callIO>>
    /\ UNCHANGED histVars

---------------------------------------------------------------------------
(* SourceReader, bulk strategy: transfer_fetchall *)

(* c.execute(text(wrapped)) and res.fetchall(); the with block ends and   *)
(* _mssql_execmany is entered with the list.                              *)
FetchAll ==
    /\ pc = "gate_ret"
    /\ strategy = "transfer_fetchall"
    /\ \E rs \in ResultSets :
         /\ srcRows' = rs
         /\ srcPos' = Len(rs)
         /\ rows' = rs
         /\ WriterFrame(rs, "fa_post")
    /\ srcOut' = 0
    /\ pc' = "w_next"
    /\ GateFramePopped
    /\ UNCHANGED <<caller, strategy, exc, failPhase, result, argVars, gateOut,
                   page, genState, obuf, total_inserted, fetched, dstVars, srcEver,
                   mssqlOpen, anyStmt, callIO, logged>>
    /\ trail' = Append(trail, "read")
    /\ UNCHANGED <<pageSizes, rowcount, envVars, credited>>

FetchAllFails ==
    /\ pc = "gate_ret"
    /\ strategy = "transfer_fetchall"
    /\ RaiseInWith("SrcError", "reading", {})
    /\ GateFramePopped
    /\ UNCHANGED <<caller, strategy, result, argVars, gateOut, srcVars, f1Vars,
                   wVars, dstVars, srcEver, mssqlOpen, anyStmt, callIO>>
    /\ UNCHANGED histVars

FetchAllPost ==
    /\ pc = "fa_post"
    /\ logged' = logged \cup (IF Drift(expected, Len(rows)) THEN {"warn_drift"} ELSE {})
                       \cup (IF Len(rows) # total THEN {"warn_destdiff"} ELSE {})
    /\ result' = total
    /\ pc' = "done"
    /\ UNCHANGED <<caller, strategy, exc, failPhase, argVars, gateVars, gateOut,
                   srcVars, f1Vars, wVars, dstVars, connVars>>
    /\ UNCHANGED histVars

---------------------------------------------------------------------------
(* SourceReader, row-by-row strategy: transfer_fetchone *)

(* res = c.execute(text(wrapped)) *)
F1Exec ==
    /\ pc = "gate_ret"
    /\ strategy = "transfer_fetchone"
    /\ \E rs \in ResultSets : srcRows' = rs
    /\ pc' = "f1_fetch"
    /\ GateFramePopped
    /\ UNCHANGED <<caller, strategy, exc, failPhase, result, argVars, gateOut,
                   srcPos, page, genState, f1Vars, wVars, dstVars, connVars, logged>>
    /\ trail' = Append(trail, "read")
    /\ UNCHANGED <<pageSizes, rowcount, envVars, credited>>

F1ExecFails ==
    /\ pc = "gate_ret"
    /\ strategy = "transfer_fetchone"
    /\ RaiseInWith("SrcError", "reading", {})
    /\ GateFramePopped
    /\ UNCHANGED <<caller, strategy, result, argVars, gateOut, srcVars, f1Vars,
                   wVars, dstVars, srcEver, mssqlOpen, anyStmt, callIO>>
    /\ UNCHANGED histVars

(* one res.fetchone(): a row is appended to buf and, when buf is full,     *)
(* _mssql_execmany is called with buf; None ends the loop and a non-empty  *)
(* buf is passed to _mssql_execmany once more.                             *)
F1Fetch ==
    /\ pc = "f1_fetch"
    /\ IF srcPos < Len(srcRows)
         THEN /\ srcPos' = srcPos + 1
              /\ fetched' = fetched + 1
              /\ obuf' = Append(obuf, srcRows[srcPos + 1])
              /\ IF BatchFull(obuf', batch_size)
                   THEN /\ WriterFrame(obuf', "f1_acc")
                        /\ pc' = "w_next"
                   ELSE /\ pc' = "f1_fetch"
                        /\ UNCHANGED wVars
         ELSE /\ UNCHANGED <<srcPos, fetched, obuf>>
              /\ IF obuf # <<>>
                   THEN /\ WriterFrame(obuf, "f1_acc_last")
                        /\ pc' = "w_next"
                   ELSE /\ pc' = "f1_post"
                        /\ UNCHANGED wVars
    /\ UNCHANGED <<caller, strategy, exc, failPhase, result, argVars, gateVars,
                   gateOut, srcRows, page, genState, rows, total_inserted, dstVars,
                   connVars, logged>>
    /\ UNCHANGED histVars

F1FetchFails ==
    /\ pc = "f1_fetch"
    /\ RaiseInWith("SrcError", "reading", {})
    /\ UNCHANGED <<caller, strategy, result, argVars, gateVars, gateOut, srcVars,
                   f1Vars, wVars, dstVars, srcEver, mssqlOpen, anyStmt, callIO>>
    /\ UNCHANGED histVars

(* `total_inserted += inserted; buf.clear()` after either writer call *)
F1Acc ==
    /\ pc \in {"f1_acc", "f1_acc_last"}
    /\ total_inserted' = total_inserted + total
    /\ obuf' = <<>>
    /\ pc' = IF pc = "f1_acc" THEN "f1_fetch" ELSE "f1_post"
    /\ UNCHANGED <<caller, strategy, exc, failPhase, result, argVars, gateVars,
                   gateOut, srcVars, rows, fetched, wVars, dstVars, connVars, logged>>
    /\ UNCHANGED histVars

F1Post ==
    /\ pc = "f1_post"
    /\ srcOut' = 0
    /\ logged' = logged \cup (IF Drift(expected, fetched) THEN {"warn_drift"} ELSE {})
                       \cup (IF fetched # total_inserted THEN {"warn_destdiff"} ELSE {})
    /\ result' = total_inserted
    /\ pc' = "done"
    /\ UNCHANGED <<caller, strategy, exc, failPhase, argVars, gateVars, gateOut,
                   srcVars, f1Vars, wVars, dstVars, srcEver, mssqlOpen, anyStmt,
                   callIO>>
    /\ UNCHANGED histVars

---------------------------------------------------------------------------
(* The transfer engine *)

Next ==
    \/ Construct \/ MgrBoundary \/ MgrGuard
    \/ Call \/ EnsureSession \/ DiagPre \/ Preview
    \/ GateEnter \/ GatePoll \/ GatePollFails \/ GateTimeout
    \/ StartStream \/ StreamOpen \/ StreamOpenFails \/ StreamFetch
    \/ StreamFetchFails \/ StreamYield \/ TransferPost
    \/ FetchAll \/ FetchAllFails \/ FetchAllPost
    \/ F1Exec \/ F1ExecFails \/ F1Fetch \/ F1FetchFails \/ F1Acc \/ F1Post
    \/ WNextList \/ WExec \/ WExecFails \/ WFinal \/ WFinalFails \/ WFinalEmpty
    \/ WCommit \/ WCommitFails

Spec == Init /\ [][Next]_vars

---------------------------------------------------------------------------
(* The stability gate alone, against a scripted source: the state at the   *)
(* entry of _wait_for_stable_count, with every script of SeqLen answers    *)
(* and every choice of the three parameters.                               *)

Scripts == [1..SeqLen -> Counts]

InitGate ==
    /\ pc = "gate"
    /\ caller = "direct"
    /\ strategy = "transfer"
    /\ exc = "none"
    /\ failPhase = "none"
    /\ result = None
    /\ markers = {}
    /\ batch_size = 1
    /\ chunk_size = 1
    /\ counts \in Scripts
    /\ stable_for \in StableFors
    /\ interval \in Intervals
    /\ max_wait \in MaxWaits
    /\ last = None
    /\ same_for = 0
    /\ waited = 0
    /\ nSamples = 0
    /\ expected = None
    /\ gateExit = "none"
    /\ srcRows = <<>>
    /\ srcPos = 0
    /\ page = <<>>
    /\ genState = "none"
    /\ rows = <<>>
    /\ obuf = <<>>
    /\ total_inserted = 0
    /\ fetched = 0
    /\ wIn = <<>>
    /\ wPos = 0
    /\ wret = "none"
    /\ buf = <<>>
    /\ total = 0
    /\ curOpen = FALSE
    /\ submitted = <<>>
    /\ txBatches = 0
    /\ pending = <<>>
    /\ committed = <<>>
    /\ srcOut = 1
    /\ srcEver = TRUE
    /\ mssqlOpen = TRUE
    /\ anyStmt = TRUE
    /\ callIO = TRUE
    /\ logged = {}
    /\ trail = <<"check", "session", "preview", "gate">>
    /\ pageSizes = <<>>
    /\ rowcount = None
    /\ driver = "any"
    /\ credited = 0
    /\ verify = TRUE
    /\ SourceAtRest

NextGate == GatePoll \/ GatePollFails \/ GateTimeout

SpecGate == InitGate /\ [][NextGate]_vars

---------------------------------------------------------------------------
(* The DestinationWriter across the calls made on one instance: the state  *)
(* at the entry of _mssql_execmany in transfer_fetchall (line 437), with   *)
(* either value of mssql_verify_rowcount, and further calls on the same    *)
(* instance, which use the same self.mssql_conn.                           *)

(* the rows call k read from the source, told apart from any other call's *)
RowsOfCall(k, n) == SeqRange(k * (MaxRows + 1) + 1, k * (MaxRows + 1) + n)
CallOf(row) == row \div (MaxRows + 1)

InitDest ==
    /\ pc = "w_next"
    /\ caller = "direct"
    /\ strategy = "transfer_fetchall"
    /\ exc = "none"
    /\ failPhase = "none"
    /\ result = None
    /\ markers = {}
    /\ batch_size \in 1..MaxBatch
    /\ chunk_size = 0
    /\ counts = <<>>
    /\ stable_for = 1
    /\ interval = 1
    /\ max_wait = 0
    /\ last = None
    /\ same_for = 0
    /\ waited = 0
    /\ nSamples = 0
    /\ expected = None
    /\ gateExit = "none"
    /\ \E n \in 0..MaxRowsD :
         /\ srcRows = RowsOfCall(1, n)
         /\ srcPos = n
         /\ rows = RowsOfCall(1, n)
         /\ wIn = RowsOfCall(1, n)
    /\ page = <<>>
    /\ genState = "none"
    /\ obuf = <<>>
    /\ total_inserted = 0
    /\ fetched = 0
    /\ wPos = 0
    /\ wret = "fa_post"
    /\ buf = <<>>
    /\ total = 0
    /\ curOpen = TRUE
    /\ submitted = <<>>
    /\ txBatches = 0
    /\ pending = <<>>
    /\ committed = <<>>
    /\ srcOut = 0
    /\ srcEver = TRUE
    /\ mssqlOpen = TRUE
    /\ anyStmt = TRUE
    /\ callIO = TRUE
    /\ logged = {}
    /\ trail = <<"check", "session", "preview", "gate", "read">>
    /\ pageSizes = <<>>
    /\ rowcount = None
    /\ driver \in Drivers
    /\ credited = 0
    /\ verify \in BOOLEAN
    /\ SourceAtRest

(* A further transfer_fetchall call on the same instance, after the        *)
(* previous one returned or raised, taken up to the writer's entry: its    *)
(* locals are fresh, self.mssql_conn and its open transaction are not.     *)
CallAgain ==
    /\ pc \in {"done", "failed"}
    /\ calls < MaxCalls
    /\ calls' = calls + 1
    /\ \E n \in 0..MaxRowsD :
         /\ srcRows' = RowsOfCall(calls + 1, n)
         /\ srcPos' = n
         /\ rows' = RowsOfCall(calls + 1, n)
         /\ WriterFrame(RowsOfCall(calls + 1, n), "fa_post")
    /\ pc' = "w_next"
    /\ exc' = "none"
    /\ failPhase' = "none"
    /\ result' = None
    /\ submitted' = <<>>
    /\ credited' = 0
    /\ rowcount' = None
    /\ UNCHANGED <<caller, strategy, argVars, gateVars, gateOut, page, genState,
                   obuf, total_inserted, fetched, txBatches, pending, committed,
                   connVars, logged, trail, pageSizes, driver, verify, select,
                   poolVars, stmts>>

NextDest ==
    \/ WNextList \/ WExec \/ WExecFails \/ WFinal \/ WFinalFails \/ WFinalEmpty
    \/ WCommit \/ WCommitFails \/ FetchAllPost \/ CallAgain

SpecDest == InitDest /\ [][NextDest]_vars

---------------------------------------------------------------------------
(* The source side alone: which pooled connection each step runs on, the   *)
(* session settings in effect on it, and the text of the statements sent.  *)
(* Starts after create_engine (which opens no connection) and follows the  *)
(* constructor and then the transfer calls.                                *)

(* select texts: "q" stands for any other character of the statement *)
Chars == {"q", ";", " "}
RECURSIVE Tails(_)
Tails(n) == IF n = 0 THEN {<<>>}
            ELSE Tails(n - 1) \cup {Append(t, ch) : t \in Tails(n - 1), ch \in Chars}
Texts == {<<"q">> \o t : t \in Tails(MaxText - 1)}

(* str.rstrip(chars) *)
RECURSIVE RStrip(_, _)
RStrip(t, S) == IF t # <<>> /\ t[Len(t)] \in S
                  THEN RStrip(SubSeq(t, 1, Len(t) - 1), S)
                  ELSE t

(* `sql.rstrip().rstrip(";")` *)
StripSemicolon(t) == RStrip(RStrip(t, {" "}), {";"})

(* a statement text: the select it is built around and how many times     *)
(* _wrap_unlimited has been applied to it                                 *)
Plain(t) == [depth |-> 0, core |-> t]

(* `SELECT * FROM ({core}) AS _x LIMIT 18446744073709551615` *)
WrapUnlimited(st) ==
    [depth |-> st.depth + 1,
     core |-> IF st.depth = 0 THEN StripSemicolon(st.core) ELSE st.core]

(* _stream_rows handed the already wrapped text *)
M_StreamStatement_Rewrapped(sel, wrapped) == WrapUnlimited(wrapped)

(* transfer passes select_sql, not wrapped, to _stream_rows, which wraps   *)
(* it itself (lines 362 and 274)                                           *)
StreamStatement(sel, wrapped) == WrapUnlimited(sel)

(* the statement the data read executes *)
DataStatement(s, sel, wrapped) ==
    IF s = "transfer" THEN StreamStatement(sel, wrapped) ELSE wrapped

(* transfer calling _stream_rows without its connection *)
M_StreamConnArg_None(c) == 0

(* `conn=c` in the call of _stream_rows, 0 standing for None *)
StreamConnArg(c) == c

Sent(kind, st) == [kind |-> kind, depth |-> st.depth, core |-> st.core]

AllSettings == {"isolation", "autocommit", "timeouts", "rowcap"}
(* lines 350-351, 417-418, 493-494 *)
WithSettings == {"isolation", "autocommit"}

(* engine.connect(): the pool hands out a connection resting in it, or a   *)
(* newly opened one when none rests or when pre-ping or pool_recycle       *)
(* replaced the resting one; a new connection has the server's defaults.   *)
CheckoutChoices == idle \cup (IF opened < MaxConns THEN {opened + 1} ELSE {})

Checkout(c, S) ==
    /\ c \in CheckoutChoices
    /\ conns' = [conns EXCEPT ![c] = @ \cup S]
    /\ opened' = IF c > opened THEN c ELSE opened
    /\ acquired' = acquired + 1

(* `with self.mysql_engine.connect() as c:` around statements that set S, *)
(* the connection going back to the pool at the end of the block          *)
Visit(S) ==
    \E c \in CheckoutChoices :
       /\ Checkout(c, S)
       /\ idle' = {c}
       /\ UNCHANGED held

srcRest == <<caller, result, argVars, gateVars, gateOut, srcVars, f1Vars, wVars,
             dstVars, connVars, logged, trail, pageSizes, rowcount, driver,
             verify, credited>>

InitSrc ==
    /\ pc = "s_ctor_session"
    /\ caller = "direct"
    /\ strategy = "none"
    /\ exc = "none"
    /\ failPhase = "none"
    /\ result = None
    /\ markers = {}
    /\ batch_size = 1
    /\ chunk_size = 1
    /\ counts = <<>>
    /\ stable_for = 1
    /\ interval = 1
    /\ max_wait = 0
    /\ last = None
    /\ same_for = 0
    /\ waited = 0
    /\ nSamples = 0
    /\ expected = None
    /\ gateExit = "none"
    /\ srcRows = <<>>
    /\ srcPos = 0
    /\ page = <<>>
    /\ genState = "none"
    /\ rows = <<>>
    /\ obuf = <<>>
    /\ total_inserted = 0
    /\ fetched = 0
    /\ wIn = <<>>
    /\ wPos = 0
    /\ wret = "none"
    /\ buf = <<>>
    /\ total = 0
    /\ curOpen = FALSE
    /\ submitted = <<>>
    /\ txBatches = 0
    /\ pending = <<>>
    /\ committed = <<>>
    /\ srcOut = 0
    /\ srcEver = FALSE
    /\ mssqlOpen = FALSE
    /\ anyStmt = FALSE
    /\ callIO = FALSE
    /\ logged = {}
    /\ trail = <<>>
    /\ pageSizes = <<>>
    /\ rowcount = None
    /\ driver = "any"
    /\ credited = 0
    /\ verify = TRUE
    /\ select \in Texts
    /\ conns = [i \in 1..MaxConns |-> {}]
    /\ opened = 0
    /\ idle = {}
    /\ held = 0
    /\ acquired = 0
    /\ gateConn = 0
    /\ gateAcq = 0
    /\ readConn = 0
    /\ stmts = {}
    /\ calls = 1

(* _ensure_mysql_fresh_session, in __init__ (line 145) and at the start   *)
(* of every transfer method                                               *)
SrcSession ==
    /\ pc \in {"s_ctor_session", "s_session"}
    /\ Visit(AllSettings)
    /\ pc' = IF pc = "s_ctor_session" THEN "s_ctor_diag" ELSE "s_diag"
    /\ UNCHANGED <<strategy, exc, failPhase, select, gateConn, gateAcq, readConn,
                   stmts, calls, srcRest>>

(* _mysql_diag and, in __init__, _mysql_is_read_only: each on a connection *)
(* of its own, setting autocommit                                          *)
SrcDiag ==
    /\ pc \in {"s_ctor_diag", "s_ctor_ro", "s_diag"}
    /\ Visit({"autocommit"})
    /\ pc' = CASE pc = "s_ctor_diag" -> "s_ctor_ro"
               [] pc = "s_ctor_ro" -> "s_ready"
               [] OTHER -> "s_preview"
    /\ UNCHANGED <<strategy, exc, failPhase, select, gateConn, gateAcq, readConn,
                   stmts, calls, srcRest>>

(* a transfer method is called with a select text *)
SrcCall ==
    /\ \/ pc = "s_ready" /\ calls' = calls
       \/ pc \in {"s_done", "failed"} /\ calls < MaxCalls /\ calls' = calls + 1
    /\ strategy' \in Strategies
    /\ pc' = "s_session"
    /\ exc' = "none"
    /\ failPhase' = "none"
    /\ gateConn' = 0
    /\ gateAcq' = 0
    /\ readConn' = 0
    /\ UNCHANGED <<select, conns, opened, idle, held, acquired, stmts, srcRest>>

(* _preview_rows: `_strip_semicolon(select_sql) + " LIMIT n"` on a        *)
(* connection of its own                                                   *)
SrcPreview ==
    /\ pc = "s_preview"
    /\ Visit({"autocommit"})
    /\ stmts' = stmts \cup {[kind |-> "preview", depth |-> 0,
                             core |-> StripSemicolon(select)]}
    /\ pc' = "s_connect"
    /\ UNCHANGED <<strategy, exc, failPhase, select, gateConn, gateAcq, readConn,
                   calls, srcRest>>

(* `with self.mysql_engine.connect() as c:` and the two SET statements *)
SrcConnect ==
    /\ pc = "s_connect"
    /\ \E c \in CheckoutChoices :
         /\ Checkout(c, WithSettings)
         /\ held' = c
         /\ idle' = {}
    /\ pc' = "s_gate"
    /\ UNCHANGED <<strategy, exc, failPhase, select, gateConn, gateAcq, readConn,
                   stmts, calls, srcRest>>

(* one count query of _wait_for_stable_count on the connection it was     *)
(* given, a count over `({wrapped_sql}) subq` (line 177); the loop goes on *)
(* or returns                                                              *)
SrcGatePoll ==
    /\ pc = "s_gate"
    /\ stmts' = stmts \cup {Sent("count", WrapUnlimited(Plain(select)))}
    /\ gateConn' = held
    /\ gateAcq' = acquired
    /\ pc' \in {"s_gate", "s_read"}
    /\ UNCHANGED <<strategy, exc, failPhase, select, conns, opened, idle, held,
                   acquired, readConn, calls, srcRest>>

(* the data query: on c for the bulk and row-by-row strategies, through    *)
(* _stream_rows for the streaming one, which checks out a connection of   *)
(* its own only when it is given none                                      *)
SrcRead ==
    /\ pc = "s_read"
    /\ stmts' = stmts \cup
         {Sent("data", DataStatement(strategy, Plain(select),
                                     WrapUnlimited(Plain(select))))}
    /\ LET arg == IF strategy = "transfer" THEN StreamConnArg(held) ELSE held
       IN IF arg = 0
            THEN \E c \in CheckoutChoices :
                    /\ Checkout(c, {"autocommit"})
                    /\ readConn' = c
            ELSE /\ readConn' = arg
                 /\ conns' = [conns EXCEPT ![arg] = @ \cup {"autocommit"}]
                 /\ UNCHANGED <<opened, acquired>>
    /\ pc' = "s_release"
    /\ UNCHANGED <<strategy, exc, failPhase, select, idle, held, gateConn, gateAcq,
                   calls, srcRest>>

(* the end of the with block (and of the generator): connections go back   *)
(* to the pool                                                             *)
SrcRelease ==
    /\ pc = "s_release"
    /\ idle' = {held}
    /\ held' = 0
    /\ pc' = "s_done"
    /\ UNCHANGED <<strategy, exc, failPhase, select, conns, opened, acquired,
                   gateConn, gateAcq, readConn, stmts, calls, srcRest>>

(* the connect, a count query or the data query raises: the with block    *)
(* returns the connection and the error propagates                        *)
SrcFails ==
    /\ pc \in {"s_connect", "s_gate", "s_read"}
    /\ idle' = IF held # 0 THEN {held} ELSE idle
    /\ held' = 0
    /\ exc' = "SrcError"
    /\ failPhase' = IF pc = "s_read" THEN "reading" ELSE "stabilizing"
    /\ pc' = "failed"
    /\ UNCHANGED <<strategy, select, conns, opened, acquired, gateConn, gateAcq,
                   readConn, stmts, calls, srcRest>>

NextSrc ==
    \/ SrcSession \/ SrcDiag \/ SrcCall \/ SrcPreview \/ SrcConnect
    \/ SrcGatePoll \/ SrcRead \/ SrcRelease \/ SrcFails

SpecSrc == InitSrc /\ [][NextSrc]_vars

---------------------------------------------------------------------------
(* Properties *)

IsPrefix(p, q) == Len(p) <= Len(q) /\ SubSeq(q, 1, Len(p)) = p

(* the call was made with positive sizes *)
PositiveSizes ==
    /\ strategy # "none"
    /\ batch_size > 0
    /\ strategy = "transfer" => chunk_size > 0

(* C1: with positive sizes and no failure, the batches passed to the      *)
(* destination's executemany, concatenated in call order, are exactly the *)
(* source's result R, in each strategy; and at every moment what has been *)
(* submitted is a prefix of R (nothing dropped, duplicated or reordered). *)
C1_BatchesConcatenateToSource ==
    /\ IsPrefix(Flatten(submitted), srcRows)
    /\ (pc = "done" /\ PositiveSizes) => Flatten(submitted) = srcRows

C1_Witness ==
    /\ pc = "done"
    /\ strategy = "transfer"
    /\ batch_size = 2
    /\ chunk_size = 2
    /\ submitted = << <<1, 2>>, <<3, 4>>, <<5>> >>

(* C2: with batch_size > 0 and no failure executemany is called exactly   *)
(* ceil(len(R) / batch_size) times; every batch ever submitted is         *)
(* non-empty and holds at most batch_size rows, and every batch but the   *)
(* last one of a completed transfer holds exactly batch_size rows.        *)
C2_BatchCountAndSizes ==
    /\ PositiveSizes =>
         \A i \in 1..Len(submitted) :
            Len(submitted[i]) >= 1 /\ Len(submitted[i]) <= batch_size
    /\ (pc = "done" /\ PositiveSizes) =>
         /\ Len(submitted) = CeilDiv(Len(srcRows), batch_size)
         /\ \A i \in 1..(Len(submitted) - 1) : Len(submitted[i]) = batch_size

C2_Witness ==
    /\ pc = "done"
    /\ strategy = "transfer_fetchone"
    /\ batch_size = 2
    /\ Len(srcRows) = 5
    /\ Len(submitted) = 3
    /\ Len(submitted[3]) = 1

(* C3: every batch is committed on its own: no destination transaction    *)
(* ever holds the rows of more than one executemany call.                  *)
C3_CommitPerBatch == PositiveSizes => txBatches <= 1

(* C4: when a source read failure reaches the caller after at least one    *)
(* batch was submitted, every submitted batch is committed.                *)
C4_ReadFailureKeepsBatches ==
    (pc = "failed" /\ failPhase = "reading" /\ PositiveSizes
       /\ Len(submitted) >= 1) =>
        (pending = <<>> /\ committed = Flatten(submitted))

(* C5: when the transfer is aborted for an unresolved "|||" placeholder,  *)
(* no connection was opened and no statement executed on either side      *)
(* since the engine object was created.                                   *)
C5_NoConnectionBeforeAbort ==
    (pc = "failed" /\ exc = "ValueError") =>
        (~srcEver /\ ~mssqlOpen /\ ~anyStmt)

(* C6: a transfer called with a non-positive chunk or batch size does no   *)
(* connection work and never returns normally.                             *)
C6_NonPositiveSizesRejected ==
    (strategy # "none" /\ ~PositiveSizes) => (~callIO /\ pc # "done")

---------------------------------------------------------------------------
(* Properties of the gate against a scripted source (SpecGate) *)

(* equal samples needed after the first one: ceil(stable_for / interval) *)
Need == CeilDiv(stable_for, interval)

(* the script holds value v at sample a and at the Need samples after it *)
RunAt(a, v) ==
    /\ a + Need <= SeqLen
    /\ \A j \in a..(a + Need) : counts[j] = v

(* sample m completes a run of Need + 1 equal samples *)
PlateauEndsAt(m) ==
    /\ m - Need >= 1
    /\ \A j \in (m - Need)..m : counts[j] = counts[m]

(* C7 as stated: if the script becomes constant at v with sample a and    *)
(* stays so for at least Need further samples, the gate returns v.         *)
C7_Original ==
    (pc = "gate_ret" /\ max_wait >= stable_for) =>
        \A a \in 1..SeqLen, v \in Counts : RunAt(a, v) => expected = v

(* C7 amended: ... provided the sample a is taken at all (it is due       *)
(* within max_wait) and no other value completed a run of Need + 1 equal  *)
(* samples before.                                                         *)
C7_Hypothesis(a, v) ==
    /\ RunAt(a, v)
    /\ (a - 1) * interval <= max_wait
    /\ \A m \in 1..(a - 1) : ~(PlateauEndsAt(m) /\ counts[m] # v)

(* C7, amended: under that hypothesis the gate, when it returns, returns v *)
C7_StableValueReturned ==
    pc = "gate_ret" =>
        \A a \in 1..SeqLen, v \in Counts : C7_Hypothesis(a, v) => expected = v

C7_Witness ==
    /\ pc = "gate_ret"
    /\ gateExit = "stable"
    /\ \E a \in 3..SeqLen :
         /\ C7_Hypothesis(a, expected)
         /\ counts[a - 1] # expected
         /\ counts[a - 2] # counts[a - 1]

(* C8: the stable return happens at the first sample that completes a run *)
(* of ceil(stable_for / interval) + 1 equal samples: the run is exactly    *)
(* that long, the accumulated time has just reached the window, no later   *)
(* sample is taken, and no run completed while the gate was still polling. *)
(* Samples 10, 12, 15, 15, 15 (here 0, 1, 2, 2, 2), interval 1, window 2:  *)
(* returns the third value at the 5th sample.                              *)
ScenarioB ==
    /\ SubSeq(counts, 1, 5) = <<0, 1, 2, 2, 2>>
    /\ interval = 1
    /\ stable_for = 2
    /\ max_wait >= 4

C8_ReturnsAtFirstStableSample ==
    /\ (pc = "gate_ret" /\ gateExit = "stable") =>
         /\ PlateauEndsAt(nSamples)
         /\ counts[nSamples] = expected
         /\ nSamples - Need > 1 => counts[nSamples - Need - 1] # expected
         /\ same_for >= stable_for
         /\ same_for - interval < stable_for
         /\ waited = (nSamples - 1) * interval
    /\ (pc = "gate" \/ gateExit = "timeout") =>
         \A m \in 1..nSamples : ~PlateauEndsAt(m)
    /\ ScenarioB =>
         /\ pc = "gate" => nSamples < 5
         /\ pc = "gate_ret" => (gateExit = "stable" /\ expected = 2 /\ nSamples = 5)

C8_Witness ==
    /\ ScenarioB
    /\ pc = "gate_ret"
    /\ nSamples = 5
    /\ expected = 2

(* C9: on every timeout exit after at least one sample the gate returns    *)
(* the most recent sample; a script that changes on every sample polled    *)
(* ends in the timeout exit with the last sample polled.                   *)
SamplesDue == (max_wait \div interval) + 1

AllChange(n) == \A j \in 1..(n - 1) : counts[j] # counts[j + 1]

C9_TimeoutReturnsLastSample ==
    /\ (pc = "gate_ret" /\ gateExit = "timeout" /\ nSamples >= 1) =>
         expected = counts[nSamples]
    /\ (pc = "gate_ret" /\ max_wait >= 0 /\ AllChange(SamplesDue)) =>
         /\ gateExit = "timeout"
         /\ nSamples = SamplesDue
         /\ expected = counts[SamplesDue]

C9_Witness ==
    /\ pc = "gate_ret"
    /\ gateExit = "timeout"
    /\ nSamples >= 3
    /\ AllChange(nSamples)
    /\ expected = counts[nSamples]
    /\ expected # 0

---------------------------------------------------------------------------
(* C10: a stability timeout is not fatal: the timeout exit logs a warning, *)
(* makes the last-seen count the expected count and raises nothing; the    *)
(* transfer then goes on to the read step, and a transfer that fails       *)
(* after a timeout fails in reading or writing.                            *)
C10_TimeoutExit ==
    (pc = "gate" /\ waited > max_wait) =>
        /\ pc' = "gate_ret"
        /\ exc' = "none"
        /\ expected' = (IF last = None THEN 0 ELSE last)
        /\ "warn_timeout" \in logged'

C10_AfterTimeout ==
    (pc = "gate_ret" /\ gateExit = "timeout") =>
        \/ pc' \in {"w_next", "f1_fetch"} /\ exc' = "none" /\ expected' = expected
        \/ pc' = "failed" /\ failPhase' = "reading"

(* C10: the warning is always there after a timeout exit, the two steps    *)
(* above behave as said, and no failure after a timeout is the timeout's.  *)
C10_TimeoutNonFatal ==
    /\ [](gateExit = "timeout" => "warn_timeout" \in logged)
    /\ []((gateExit = "timeout" /\ pc = "failed")
            => failPhase \in {"reading", "writing"})
    /\ [][C10_TimeoutExit]_vars
    /\ [][C10_AfterTimeout]_vars

C10_Witness ==
    /\ pc = "done"
    /\ gateExit = "timeout"
    /\ "warn_timeout" \in logged
    /\ expected = 2
    /\ Len(committed) >= 2

---------------------------------------------------------------------------
(* C11 as stated: when _wait_for_stable_count returns, the time it has     *)
(* slept in total (waited, the sum of the poll sleeps) does not exceed     *)
(* max_wait.  The pass that samples at waited <= max_wait still sleeps a   *)
(* full interval before the loop test, so the timeout exit leaves with     *)
(* waited > max_wait.                                                      *)
C11_Original ==
    (pc = "gate_ret" /\ max_wait >= 0) => waited <= max_wait

(* the loop is run to its end: the process is never suspended for ever     *)
(* between two passes (single thread, blocking calls that return)          *)
SpecGateFair == SpecGate /\ WF_vars(NextGate)

C11_Bounds ==
    /\ nSamples <= SamplesDue
    /\ nSamples >= 1 => waited <= max_wait + interval
    /\ waited <= nSamples * interval
    /\ gateExit = "stable" => waited <= max_wait

(* C11: for every sample sequence and interval >= 1 the gate ends (it      *)
(* returns or raises); it takes at most max_wait/interval + 1 samples, has *)
(* slept at most max_wait + interval when it ends, and at most max_wait    *)
(* when it returns a stable count.                                         *)
C11_GateEndsWithinBound == []C11_Bounds /\ <>(pc # "gate")

C11_Witness ==
    /\ pc = "gate_ret"
    /\ gateExit = "timeout"
    /\ max_wait = MaxWaitB
    /\ interval = 1
    /\ nSamples = MaxWaitB + 1
    /\ waited = max_wait + interval

---------------------------------------------------------------------------
RECURSIVE SumSeq(_)
SumSeq(q) == IF q = <<>> THEN 0 ELSE Head(q) + SumSeq(Tail(q))

(* the i-th batch of a result cut every b rows, whatever the paging *)
BatchOf(i, b) == SubSeq(srcRows, (i - 1) * b + 1, Min(i * b, Len(srcRows)))

(* Scenario A of the spec in units of 500 rows: 2500 rows, chunk 1000,     *)
(* batch 500                                                               *)
ScenarioA ==
    /\ strategy = "transfer"
    /\ pc = "done"
    /\ Len(srcRows) = 5
    /\ chunk_size = 2
    /\ batch_size = 1

ScenarioA_PagesAndBatches ==
    /\ pageSizes = <<2, 2, 1>>
    /\ submitted = << <<1>>, <<2>>, <<3>>, <<4>>, <<5>> >>

---------------------------------------------------------------------------
(* an executemany call has just succeeded *)
BatchAccepted == Len(submitted') = Len(submitted) + 1

LastBatchLen == Len(submitted'[Len(submitted')])

C13_DeltaPerBatch ==
    BatchAccepted =>
       /\ rowcount' >= 0 => credited' = credited + rowcount'
       /\ rowcount' < 0 => credited' = credited + LastBatchLen

C13_ReturnedIsSum ==
    pc = "done" =>
       /\ result = credited
       /\ driver = "absent" => result = Len(Flatten(submitted))

(* C13: each executemany adds to the inserted count the rowcount the       *)
(* driver reported when that is non-negative and the batch length          *)
(* otherwise; the value a completed call returns is the sum of these       *)
(* additions, and it equals the number of rows submitted when the driver   *)
(* reports -1 for every batch.                                             *)
C13_InsertedCount == []C13_ReturnedIsSum /\ [][C13_DeltaPerBatch]_vars

C13_Witness ==
    /\ pc = "done"
    /\ strategy = "transfer_fetchone"
    /\ driver = "absent"
    /\ batch_size = 2
    /\ Len(submitted) = 3
    /\ result = 5

---------------------------------------------------------------------------
(* C14: the inserted count never exceeds the rows submitted: whatever the  *)
(* driver reports for a batch, the amount added for it is at most the      *)
(* batch length, so the running sum is at most the number of rows handed   *)
(* to executemany.  The code takes any non-negative rowcount as it is.     *)
C14_InsertedAtMostSubmitted ==
    PositiveSizes => credited <= Len(Flatten(submitted))

---------------------------------------------------------------------------
WriterPcs == {"w_next", "w_exec", "w_final", "w_commit"}

C15_CursorClosedOutsideWriter == pc \notin WriterPcs => ~curOpen

(* a step on which an exception leaves a running _mssql_execmany *)
C15_RaisingExit ==
    (pc \in WriterPcs /\ exc = "none" /\ exc' # "none") =>
       /\ ~curOpen'
       /\ pc' = "failed"
       /\ failPhase' = "writing" => exc' = "DstError"
       /\ pending' = pending
       /\ txBatches' = txBatches
       /\ committed' = committed

(* C15: the cursor of _mssql_execmany is open only while the writer runs:  *)
(* it is closed on the normal return and on every exception; when          *)
(* executemany or commit raises, that destination error is what reaches    *)
(* the caller, and the open transaction is left as it was (no rollback).   *)
C15_WriterCleanup ==
    []C15_CursorClosedOutsideWriter /\ [][C15_RaisingExit]_vars

C15_Witness ==
    /\ pc = "failed"
    /\ exc = "DstError"
    /\ failPhase = "writing"
    /\ ~curOpen
    /\ txBatches = 2
    /\ pending # <<>>
    /\ committed = <<>>

---------------------------------------------------------------------------
C16_RowsSubmittedOnce ==
    \A i, j \in 1..Len(Flatten(submitted)) :
       i # j => Flatten(submitted)[i] # Flatten(submitted)[j]

(* nothing is sent to the destination on or after a raising step *)
C16_NothingAfterFailure ==
    (exc # "none" \/ exc' # "none") =>
       UNCHANGED <<submitted, pending, committed, txBatches>>

(* C16: no row is handed to executemany twice, and once an exception has   *)
(* been raised in a transfer call (an insert or a commit that failed       *)
(* included) that call issues no further executemany and no commit, in     *)
(* any of the three strategies.                                            *)
C16_NoRetry == []C16_RowsSubmittedOnce /\ [][C16_NothingAfterFailure]_vars

C16_Witness ==
    /\ pc = "failed"
    /\ exc = "DstError"
    /\ strategy = "transfer_fetchone"
    /\ Len(srcRows) = 5
    /\ submitted = << <<1, 2>> >>
    /\ committed = <<1, 2>>
    /\ obuf = <<3, 4>>

---------------------------------------------------------------------------
(* C17: whenever a transfer completes with an expected count that differs  *)
(* from the number of rows read or from the number reported inserted, a    *)
(* drift warning has been logged (the destination-difference warning of    *)
(* the bulk and row-by-row strategies counts as one).  It is stated for    *)
(* calls that return no more than they read.  transfer compares the        *)
(* expected count with the reported inserted total only.                   *)
C17_DriftAlwaysLogged ==
    (pc = "done" /\ PositiveSizes /\ result <= srcPos /\
       (expected # srcPos \/ expected # result)) =>
         logged \cap {"warn_drift", "warn_destdiff"} # {}

---------------------------------------------------------------------------
C18_FailureReachesCaller ==
    /\ (failPhase # "none") = (pc = "failed")
    /\ (exc # "none") = (pc = "failed")
    /\ failPhase \in {"stabilizing", "reading"} => exc = "SrcError"
    /\ failPhase = "writing" => exc = "DstError"
    /\ pc = "failed" => result = None

C18_FailureIsFinal ==
    exc # "none" => UNCHANGED <<pc, exc, failPhase, result>>

(* C18: when a stability count query, a source fetch or a destination      *)
(* insert or commit raises, the call ends with that exception, of the kind *)
(* that was raised, at the caller; it has returned no row count and        *)
(* returns none afterwards.                                                *)
C18_FailuresPropagate ==
    []C18_FailureReachesCaller /\ [][C18_FailureIsFinal]_vars

C18_Witness ==
    /\ pc = "failed"
    /\ strategy = "transfer"
    /\ failPhase = "reading"
    /\ exc = "SrcError"
    /\ submitted # <<>>
    /\ result = None

---------------------------------------------------------------------------
Phases == <<"check", "session", "preview", "gate", "read", "write">>

C19_NothingMovedBeforeGate ==
    (srcRows # <<>> \/ srcPos > 0 \/ rows # <<>> \/ fetched > 0 \/
       submitted # <<>> \/ curOpen \/ genState \notin {"none"}) =>
         gateExit # "none"

(* C19: every strategy goes through its phases in one order: placeholder   *)
(* check, session normalisation, bounded preview, stability gate, then     *)
(* reading and writing; no row of the result to transfer is fetched and    *)
(* no insert is issued before the gate has returned (the preview reads its *)
(* own few rows for the log only).                                         *)
C19_PhaseOrder == IsPrefix(trail, Phases) /\ C19_NothingMovedBeforeGate

C19_Witness ==
    /\ pc = "done"
    /\ strategy = "transfer_fetchone"
    /\ trail = Phases
    /\ gateExit = "stable"
    /\ Len(submitted) = 2

---------------------------------------------------------------------------
(* the preview step changes nothing but the log, whether it fails or not *)
C20_PreviewStep ==
    pc = "preview" =>
       /\ pc' = "connect"
       /\ logged' \in {logged, logged \cup {"warn_preview"}}
       /\ trail' = Append(trail, "preview")
       /\ UNCHANGED <<caller, strategy, exc, failPhase, result, argVars,
                      gateVars, gateOut, srcVars, f1Vars, wVars, dstVars,
                      connVars, pageSizes, rowcount, envVars, credited>>

C20_SameRowsAfterFailedPreview ==
    ("warn_preview" \in logged /\ pc = "done" /\ PositiveSizes) =>
       Flatten(submitted) = srcRows

(* C20: in every strategy a failed preview is logged as a warning and      *)
(* changes nothing else: the call goes on to the gate, the read and the    *)
(* writes from the state a successful preview leaves, and a call that      *)
(* completes has transferred the whole result.                             *)
C20_PreviewNeverAborts ==
    []C20_SameRowsAfterFailedPreview /\ [][C20_PreviewStep]_vars

C20_Witness ==
    /\ pc = "done"
    /\ strategy = "transfer_fetchall"
    /\ "warn_preview" \in logged
    /\ Len(srcRows) = 5
    /\ Flatten(submitted) = srcRows
    /\ committed = srcRows

---------------------------------------------------------------------------
(* C21 as stated, for the bulk and the row-by-row strategies: the source   *)
(* result is read to its end before the first insert is issued.            *)
(* transfer_fetchone calls the writer from inside its fetch loop, each     *)
(* time its buffer is full.                                                *)
C21_Original ==
    (strategy \in {"transfer_fetchall", "transfer_fetchone"} /\
       PositiveSizes /\ submitted # <<>>) =>
         srcPos = Len(srcRows)

(* C21: the streaming strategy never fetches a page while a full batch is  *)
(* waiting (a full buffer is submitted first), so writes come between the  *)
(* page fetches; the row-by-row strategy likewise never fetches a row with *)
(* a full buffer; only the bulk strategy has read the whole result before  *)
(* its writer starts.                                                      *)
C21_ReadsAndWrites ==
    /\ (strategy = "transfer" /\ pc = "w_next" /\ batch_size > 0) =>
          Len(buf) < batch_size
    /\ (strategy = "transfer_fetchone" /\ pc = "f1_fetch" /\ batch_size > 0) =>
          Len(obuf) < batch_size
    /\ (strategy = "transfer_fetchall" /\ (curOpen \/ submitted # <<>>)) =>
          (srcPos = Len(srcRows) /\ rows = srcRows)

C21_Witness ==
    /\ strategy = "transfer"
    /\ pc = "w_next"
    /\ genState = "fetch"
    /\ page = <<>>
    /\ Len(submitted) = 2
    /\ srcPos < Len(srcRows)

---------------------------------------------------------------------------
(* length of the run of equal samples that ends at sample n *)
RECURSIVE TrailingRun(_)
TrailingRun(n) ==
    IF n <= 1 THEN n
    ELSE IF counts[n] = counts[n - 1] THEN 1 + TrailingRun(n - 1) ELSE 1

(* C22: after every sample the reference value is that sample and the      *)
(* accumulated stable time is interval times the number of repeats in the  *)
(* run of equal samples that ends there: a sample that differs from the    *)
(* previous one, larger or smaller, leaves it at zero, and a value that    *)
(* comes back after a different sample starts a new run.                   *)
C22_ChangeResets ==
    nSamples >= 1 =>
       /\ last = counts[nSamples]
       /\ same_for = interval * (TrailingRun(nSamples) - 1)

C22_Witness ==
    /\ pc = "gate"
    /\ interval = 1
    /\ stable_for = 2
    /\ nSamples = 4
    /\ SubSeq(counts, 1, 4) = <<2, 2, 1, 2>>
    /\ same_for = 0
    /\ last = 2

---------------------------------------------------------------------------
(* C23: when a transfer call has failed in the stabilising, reading or     *)
(* writing phase, no source connection is checked out any more and the     *)
(* destination connection has been released.  The with block gives the     *)
(* source connection back; nothing closes self.mssql_conn.                 *)
C23_ConnectionsReleasedOnFailure ==
    (pc = "failed" /\ failPhase \in {"stabilizing", "reading", "writing"}) =>
       (srcOut = 0 /\ ~mssqlOpen)

---------------------------------------------------------------------------
(* the error lines the engine itself writes for a failure *)
ErrorLines == logged \cap {"err_transfer", "err_stream", "err_mssql"}

(* what a failed source read leaves in the log: _stream_rows logs its own  *)
(* line, the except clause of the transfer method logs one more            *)
ReadFailureLines(s) ==
    IF s = "transfer" THEN {"err_stream", "err_transfer"} ELSE {"err_transfer"}

(* what a failed insert or commit leaves in the log *)
WriteFailureLines(s) ==
    IF s = "transfer_fetchall" THEN {"err_mssql"}
    ELSE {"err_mssql", "err_transfer"}

(* C25: the error lines of a failed call tell its phase: those of a failed *)
(* stability count query are neither those of a failed read nor those of a *)
(* failed insert, and those of a failed read are not those of a failed     *)
(* insert, in every strategy.  The single except clause around gate and    *)
(* read writes the same line for both.                                     *)
C25_ErrorLinesTellPhase ==
    pc = "failed" =>
       /\ failPhase = "stabilizing" =>
             /\ ErrorLines # ReadFailureLines(strategy)
             /\ ErrorLines # WriteFailureLines(strategy)
       /\ failPhase = "reading" =>
             /\ ErrorLines = ReadFailureLines(strategy)
             /\ ErrorLines # WriteFailureLines(strategy)
       /\ failPhase = "writing" => ErrorLines = WriteFailureLines(strategy)

---------------------------------------------------------------------------
(* rows fetched from the source and not yet handed to executemany *)
InFlight == Len(page) + Len(buf)

(* C30: in the streaming strategy with chunk_size > 0 and batch_size > 0   *)
(* the rows fetched but not yet submitted (the rest of the current page    *)
(* plus the writer's buffer) never number more than                        *)
(* chunk_size + batch_size - 1.                                            *)
C30_BoundedInFlight ==
    (strategy = "transfer" /\ PositiveSizes) =>
       /\ InFlight <= chunk_size + batch_size - 1
       /\ pc \in {"w_next", "w_exec", "w_final"} =>
             InFlight = srcPos - Len(Flatten(submitted))

C30_Witness ==
    /\ strategy = "transfer"
    /\ chunk_size = 2
    /\ batch_size = 1
    /\ Len(srcRows) = 5
    /\ Len(submitted) = 2
    /\ Len(page) = 1
    /\ Len(buf) = 1
    /\ InFlight = chunk_size + batch_size - 1


---------------------------------------------------------------------------
(* C26: with rowcount verification enabled a batch whose reported rowcount *)
(* is short of its size causes a warning and nothing else: the writer goes *)
(* on to the next row or to the commit, every batch of the input is        *)
(* submitted and the call returns; with verification disabled no such      *)
(* warning is logged, and the batches submitted are the same cut of the    *)
(* input every batch_size rows in both cases.                              *)
ShortReport == rowcount' >= 0 /\ rowcount' < LastBatchLen

C26_Batches ==
    /\ ~verify => "warn_rowcount" \notin logged
    /\ \A i \in 1..Len(submitted) : submitted[i] = BatchOf(i, batch_size)
    /\ pc \in {"w_commit", "fa_post", "done"} => Flatten(submitted) = wIn
    /\ pc = "done" => (exc = "none" /\ result = credited)

C26_ShortRowcountOnlyWarns ==
    /\ []C26_Batches
    /\ [][(BatchAccepted /\ ShortReport) =>
            /\ logged' = (IF verify THEN logged \cup {"warn_rowcount"} ELSE logged)
            /\ pc' \in {"w_next", "w_commit"}
            /\ exc' = "none"
            /\ credited' = credited + rowcount']_vars

C26_Witness ==
    /\ verify
    /\ pc = "done"
    /\ calls = 1
    /\ Len(submitted) = 2
    /\ "warn_rowcount" \in logged
    /\ result < Len(wIn)
    /\ committed = wIn

(* C29: every commit makes durable only rows that the call performing it   *)
(* submitted.                                                              *)
C29_CommitOnlyOwnRows ==
    [][\A i \in 1..Len(committed') :
          i > Len(committed) => CallOf(committed'[i]) = calls]_vars

---------------------------------------------------------------------------
(* C24: the settings applied by the normalisation step are all in effect   *)
(* on the connection that executes the count queries and the data read.    *)
C24_SettingsOnWorkingConnection ==
    /\ gateConn # 0 => conns[gateConn] = AllSettings
    /\ readConn # 0 => conns[readConn] = AllSettings

(* C27: every count and data statement contains the caller's select,      *)
(* stripped of its trailing terminator, wrapped exactly once, in each of   *)
(* the three strategies.                                                   *)
C27_WrappedExactlyOnce ==
    \A st \in stmts :
       st.kind \in {"count", "data"} =>
          /\ st.depth = 1
          /\ st.core = StripSemicolon(select)
          /\ st.core # <<>>
          /\ st.core[Len(st.core)] # ";"

C27_Witness ==
    /\ strategy = "transfer"
    /\ pc = "s_done"
    /\ select = <<"q", ";", " ">>
    /\ {st.kind : st \in stmts} = {"preview", "count", "data"}
    /\ \A st \in stmts : st.core = <<"q">>

(* C28: in the streaming strategy the data read runs on the connection     *)
(* the count queries ran on, and no connection is acquired between the     *)
(* last count query and the end of the read.                               *)
C28_StreamReusesGateConnection ==
    (strategy = "transfer" /\ pc \in {"s_release", "s_done"}) =>
       /\ readConn = gateConn
       /\ readConn # 0
       /\ acquired = gateAcq

C28_Witness ==
    /\ strategy = "transfer"
    /\ pc = "s_done"
    /\ calls = 1
    /\ gateConn = 2
    /\ readConn = 2
    /\ opened = 2
====
